---- MODULE Spec2Model ----
(***************************************************************************)
(* Model of the Java split/merge transformer of lambdachecker-easy-submit   *)
(* (src/src/utils/split.ts, src/src/utils/merge.ts) and of its callers in   *)
(* SubmissionFile (src/unnamed/part_000).                                   *)
(*                                                                         *)
(* Text.  A file is the sequence of its lines (content.split('\n')), a line *)
(* is the sequence of its tokens.  Tokens of one line are separated by      *)
(* blanks; the token WS at the head of a line is its indentation.  The      *)
(* regular expressions of the source are operators on token sequences: \s+  *)
(* is a token boundary, \w+ a word token.  An import line `import p.N;` is   *)
(* <<"import", p, N>>, `import p.*;` is <<"import", p, "*">>.               *)
(*                                                                         *)
(* Disk.  The submission file is [exists, lines]; the split directory is    *)
(* [exists, files], files a function from paths <<base, extension>> to      *)
(* lines.  The directory is flat (collectJavaFiles' recursion into          *)
(* subdirectories is not modelled), the problem's language is Java, and the *)
(* fs calls do not throw.  readdirSync may list the files in any order.     *)
(*                                                                         *)
(* Poller.  waitForSubmitionProcessing of ProblemWebview                    *)
(* (src/src/webview/problemWebview.ts) runs against a judge that holds the  *)
(* list of the problem's submissions, numbered from 1; each await of the    *)
(* function is a position of `poll`.                                        *)
(***************************************************************************)
EXTENDS Integers, Sequences, FiniteSets, TLC

\* ------------------------------------------------------------------ text

WS == "  "
Kinds == {"class", "interface", "enum"}
Mods == {"abstract", "final"}
NonWord == {WS, "{", "}", "(", ")", "*", ";", "//"}

\* \w+ : a token made of word characters
IsWord(t) == t \notin NonWord

EmptyLine == << >>

RECURSIVE StripWS(_)
\* ^\s* at the head of a line: the line without its indentation
StripWS(line) ==
  IF line # << >> /\ Head(line) = WS THEN StripWS(Tail(line)) ELSE line

\* line.startsWith('import ')                                  (split.ts:23)
IsImportLine(line) == line # << >> /\ Head(line) = "import"

\* line.startsWith('package')                                  (merge.ts:36)
IsPackageLine(line) == line # << >> /\ Head(line) = "package"

\* (?:abstract\s+|final\s+)? : the tokens left after an optional modifier
SkipMod(toks) == IF toks # << >> /\ Head(toks) \in Mods THEN Tail(toks) ELSE toks

\* (public\s+)? : the tokens left after an optional `public`
SkipPublic(toks) == IF toks # << >> /\ Head(toks) = "public" THEN Tail(toks) ELSE toks

\* (class|interface|enum)\s+(\w+) at the head of toks
KindAndName(toks) == Len(toks) >= 2 /\ toks[1] \in Kinds /\ IsWord(toks[2])

\* typeRegex: /^\s*(public\s+)?((?:abstract\s+|final\s+)?)(class|interface|enum)\s+(\w+)/
TypeRegexMatches(line) == KindAndName(SkipMod(SkipPublic(StripWS(line))))

\* match[4] of typeRegex
TypeRegexName(line) == SkipMod(SkipPublic(StripWS(line)))[2]

\* Faulty variant of NonPublicHeaderMatches: the pattern without its modifier group
NonPublicHeaderNoModifier(line) == KindAndName(StripWS(line))

\* The pattern of the replace in split.ts:53 on one line:
\* /^\s*(?!public)(\s*)((?:abstract\s+|final\s+)?)(class|interface|enum)\s+(\w+)/m
NonPublicHeaderMatches(line) == KindAndName(SkipMod(StripWS(line)))

\* The replacement `${space}public ${modifier}${type} ${name}`: the first \s*
\* is greedy and takes the whole indentation, so the group `space` is empty
\* and the rewritten header starts at column 0.
\* Faulty variant of InsertPublic: the abstract/final modifier is not put back
InsertPublicDropModifier(line) == <<"public">> \o SkipMod(StripWS(line))

InsertPublic(line) == <<"public">> \o StripWS(line)

RECURSIVE ReplaceFirstHeader(_)
\* classContent.replace(<pattern>, ...) without the g flag: the first line of
\* the block that matches is rewritten, the others are left alone.
ReplaceFirstHeader(block) ==
  IF block = << >> THEN << >>
  ELSE IF NonPublicHeaderMatches(Head(block))
       THEN <<InsertPublic(Head(block))>> \o Tail(block)
       ELSE <<Head(block)>> \o ReplaceFirstHeader(Tail(block))

\* A `public` token that /\bpublic\s+((?:abstract\s+|final\s+)?)(class|interface|enum)/
\* matches: it is followed by an optional modifier and a kind keyword.
PublicBeforeKind(toks) ==
  /\ toks # << >>
  /\ Head(toks) = "public"
  /\ LET r == SkipMod(Tail(toks)) IN r # << >> /\ Head(r) \in Kinds

RECURSIVE StripPublicToks(_)
StripPublicToks(toks) ==
  IF toks = << >> THEN << >>
  ELSE IF PublicBeforeKind(toks) THEN StripPublicToks(Tail(toks))
       ELSE <<Head(toks)>> \o StripPublicToks(Tail(toks))

\* body.replace(/\bpublic\s+(...)(class|interface|enum)/g, '$1$2')  (merge.ts:64)
StripPublic(lines) == [i \in 1..Len(lines) |-> StripPublicToks(lines[i])]

RECURSIVE Flat(_)
\* The tokens of a text in order, line breaks and indentation being white space
Flat(lines) ==
  IF lines = << >> THEN << >>
  ELSE SelectSeq(Head(lines), LAMBDA t : t # WS) \o Flat(Tail(lines))

Drop(s, n) == SubSeq(s, n + 1, Len(s))

RECURSIVE ClassNamesOf(_)
\* extractClassNames: every match of
\* /\b(public\s+)?(abstract\s+|final\s+)?(class|interface|enum)\s+(\w+)/g,
\* the scan resuming after each match.
ClassNamesOf(toks) ==
  IF Len(toks) < 2 THEN {}
  ELSE IF KindAndName(toks) THEN {toks[2]} \cup ClassNamesOf(Drop(toks, 2))
       ELSE ClassNamesOf(Tail(toks))

\* public\s+static\s+void\s+main\s*\(  at the head of toks
MainSignatureAt(toks) ==
  Len(toks) >= 5 /\ SubSeq(toks, 1, 5) = <<"public", "static", "void", "main", "(">>

\* Faulty variant of MainMatchStarts: `public` need not be followed by `class <word>`
MainMatchStartsLoose(toks) ==
  {i \in 1..Len(toks) :
     /\ i + 2 <= Len(toks)
     /\ toks[i] = "public"
     /\ \E j \in (i + 3)..Len(toks) : MainSignatureAt(Drop(toks, j - 1))}

\* The positions where /public\s+class\s+(\w+)[\s\S]*?public\s+static\s+void\s+main\s*\(/
\* can start: `public class <word>` with a main signature somewhere after it.
MainMatchStarts(toks) ==
  {i \in 1..Len(toks) :
     /\ i + 2 <= Len(toks)
     /\ toks[i] = "public" /\ toks[i + 1] = "class" /\ IsWord(toks[i + 2])
     /\ \E j \in (i + 3)..Len(toks) : MainSignatureAt(Drop(toks, j - 1))}

Min(S) == CHOOSE x \in S : \A y \in S : x <= y

\* body.match(...) is not null                                  (merge.ts:59)
MainMatches(lines) == MainMatchStarts(Flat(lines)) # {}

\* mainMatch[1]: the name captured by the leftmost match
MainMatchName(lines) ==
  LET toks == Flat(lines) IN toks[Min(MainMatchStarts(toks)) + 2]

\* --------------------------------------------------------- split.ts

\* A path inside the split directory is <<base name, extension>>
JavaPath(name) == <<name, "java">>

\* The scanner's variables before the loop                    (split.ts:13-18)
ScanInit ==
  [importLines |-> << >>, typeBlocks |-> << >>,
   currentBlock |-> << >>, currentName |-> "", inType |-> FALSE]

\* inType && currentBlock.length > 0 && currentName : push the open block
CloseBlock(st) ==
  IF st.inType /\ Len(st.currentBlock) > 0 /\ st.currentName # ""
  THEN Append(st.typeBlocks, [name |-> st.currentName, content |-> st.currentBlock])
  ELSE st.typeBlocks

\* One iteration of `for (let line of lines)`                 (split.ts:22-39)
ScanStep(st, line) ==
  IF IsImportLine(line)
  THEN [st EXCEPT !.importLines = Append(@, line)]
  ELSE IF TypeRegexMatches(line)
       THEN [st EXCEPT !.typeBlocks = CloseBlock(st),
                       !.currentName = TypeRegexName(line),
                       !.currentBlock = <<line>>,
                       !.inType = TRUE]
       ELSE IF st.inType
            THEN [st EXCEPT !.currentBlock = Append(@, line)]
            ELSE st

RECURSIVE ScanFrom(_, _)
ScanFrom(st, lines) ==
  IF lines = << >> THEN st ELSE ScanFrom(ScanStep(st, Head(lines)), Tail(lines))

\* Faulty variant of Scan: the block open at the end of input is not recorded
ScanWithoutFinalClose(lines) ==
  LET st == ScanFrom(ScanInit, lines)
  IN  [importLines |-> st.importLines, typeBlocks |-> st.typeBlocks]

\* The loop and the close after it                            (split.ts:22-43)
Scan(lines) ==
  LET st == ScanFrom(ScanInit, lines)
  IN  [importLines |-> st.importLines, typeBlocks |-> CloseBlock(st)]

\* [...importLines, '', classContent].join('\n')              (split.ts:50-57)
SplitFileContent(importLines, block) ==
  importLines \o <<EmptyLine>> \o ReplaceFirstHeader(block.content)

\* fs.writeFileSync(path, content) on the directory's files
Put(files, path, content) ==
  [p \in (DOMAIN files) \cup {path} |-> IF p = path THEN content ELSE files[p]]

RECURSIVE WriteBlocks(_, _, _)
\* for (const block of typeBlocks) { ... writeFileSync ... }  (split.ts:49-61)
WriteBlocks(files, importLines, blocks) ==
  IF blocks = << >> THEN files
  ELSE WriteBlocks(Put(files, JavaPath(Head(blocks).name),
                       SplitFileContent(importLines, Head(blocks))),
                   importLines, Tail(blocks))

NoFiles == [p \in {} |-> << >>]

\* Faulty variant of SplitMergedJavaFile: the directory is made only by a write
SplitWithoutMkdir(file, dir) ==
  IF ~file.exists
  THEN [dir |-> dir, error |-> "File not found", typeBlocks |-> << >>, importLines |-> << >>]
  ELSE LET sc == Scan(file.lines)
           made == IF dir.exists THEN dir.files ELSE NoFiles
       IN  [dir |-> IF sc.typeBlocks = << >> THEN dir
                    ELSE [exists |-> TRUE,
                          files |-> WriteBlocks(made, sc.importLines, sc.typeBlocks)],
            error |-> "",
            typeBlocks |-> sc.typeBlocks,
            importLines |-> sc.importLines]

\* splitMergedJavaFile(filePath, outputDir): the directory it leaves and what
\* it logged.  file = [exists, lines], dir = [exists, files].
SplitMergedJavaFile(file, dir) ==
  IF ~file.exists
  THEN [dir |-> dir, error |-> "File not found", typeBlocks |-> << >>, importLines |-> << >>]
  ELSE LET sc == Scan(file.lines)
           made == IF dir.exists THEN dir.files ELSE NoFiles
       IN  [dir |-> [exists |-> TRUE,
                     files |-> WriteBlocks(made, sc.importLines, sc.typeBlocks)],
            error |-> "",
            typeBlocks |-> sc.typeBlocks,
            importLines |-> sc.importLines]

\* --------------------------------------------------------- merge.ts

\* A string as the lines it splits into: '' is one empty line, and so is
\* the join of no lines.
Text(lines) == IF lines = << >> THEN <<EmptyLine>> ELSE lines

\* a string is falsy iff it is ''
IsEmptyString(text) == text = <<EmptyLine>>

RECURSIVE TrimRight(_)
TrimRight(line) ==
  IF line # << >> /\ line[Len(line)] = WS
  THEN TrimRight(SubSeq(line, 1, Len(line) - 1)) ELSE line

\* line.trim()                                                 (merge.ts:41)
Trim(line) == TrimRight(StripWS(line))

\* imp.match(/import\s+([\w.]+)\.(\w+);/)                       (merge.ts:42)
ImportRegexMatches(imp) == Len(imp) = 3 /\ imp[1] = "import" /\ IsWord(imp[3])

\* match[2]
ImportedClass(imp) == imp[3]

\* collectJavaFiles: the entries whose name ends with '.java'  (merge.ts:12-22)
JavaFilesOf(dir) == {p \in DOMAIN dir.files : p[2] = "java"}

\* The orders in which readdirSync can enumerate a set of paths
Orders(S) ==
  {o \in [1..Cardinality(S) -> S] : \A i, j \in 1..Cardinality(S) : i # j => o[i] # o[j]}

\* Faulty variant of CollectDefined: no first pass over the files
CollectNothing(dir, order) == {}

\* mergeFiles lines 85-87: extractClassNames over every file
CollectDefined(dir, order) ==
  UNION {ClassNamesOf(Flat(dir.files[order[i]])) : i \in 1..Len(order)}

\* The closure's variables before pass 2                       (merge.ts:5-10)
MergeInit(defined) ==
  [imports |-> {}, mainClassContent |-> <<EmptyLine>>, mainClassName |-> "",
   otherClasses |-> << >>, definedClasses |-> defined]

\* The import lines extractFileContent adds to `imports`      (merge.ts:39-51)
KeptImports(lines, defined) ==
  {Trim(lines[i]) : i \in {k \in 1..Len(lines) :
      /\ IsImportLine(lines[k])
      /\ LET imp == Trim(lines[k])
         IN  ImportRegexMatches(imp) => ImportedClass(imp) \notin defined}}

\* bodyLines.join('\n')                                       (merge.ts:52-57)
BodyOf(lines) == Text(SelectSeq(lines, LAMBDA l : ~IsImportLine(l)))

\* Faulty variant of ExtractFileContent: the first file with a main method is kept
ExtractFileContentFirstWins(st, content) ==
  LET defined == st.definedClasses \cup ClassNamesOf(Flat(content))
      lines == SelectSeq(content, LAMBDA l : ~IsPackageLine(l))
      body == BodyOf(lines)
      st1 == [st EXCEPT !.definedClasses = defined,
                        !.imports = @ \cup KeptImports(lines, defined)]
  IN  IF MainMatches(body) /\ st.mainClassName = ""
      THEN [st1 EXCEPT !.mainClassName = MainMatchName(body),
                       !.mainClassContent = body]
      ELSE [st1 EXCEPT !.otherClasses = Append(@, StripPublic(body))]

\* extractFileContent(filePath)                               (merge.ts:32-70)
ExtractFileContent(st, content) ==
  LET defined == st.definedClasses \cup ClassNamesOf(Flat(content))
      lines == SelectSeq(content, LAMBDA l : ~IsPackageLine(l))
      body == BodyOf(lines)
      st1 == [st EXCEPT !.definedClasses = defined,
                        !.imports = @ \cup KeptImports(lines, defined)]
  IN  IF MainMatches(body)
      THEN [st1 EXCEPT !.mainClassName = MainMatchName(body),
                       !.mainClassContent = body]
      ELSE [st1 EXCEPT !.otherClasses = Append(@, StripPublic(body))]

RECURSIVE ExtractAll(_, _, _)
\* for (const filePath of javaFiles) extractFileContent(filePath)  (merge.ts:90-92)
ExtractAll(st, dir, order) ==
  IF order = << >> THEN st
  ELSE ExtractAll(ExtractFileContent(st, dir.files[Head(order)]), dir, Tail(order))

\* The import lines the model uses, in the order Array.prototype.sort()
\* gives their texts (UTF-16 code units: '*' < 'L', "java" < "lib").
LexOrder ==
  << <<"import", "java.io", "File">>,
     <<"import", "java.util", "*">>,
     <<"import", "java.util", "List">>,
     <<"import", "lib", "Helper">>,
     <<"import", "lib", "Main">> >>

LexRank(imp) == CHOOSE i \in 1..Len(LexOrder) : LexOrder[i] = imp

RECURSIVE DescendingSeq(_)
\* Faulty variant of SortedSeq: the comparison reversed
DescendingSeq(S) ==
  IF S = {} THEN << >>
  ELSE LET m == CHOOSE x \in S : \A y \in S : LexRank(x) >= LexRank(y)
       IN  <<m>> \o DescendingSeq(S \ {m})

RECURSIVE SortedSeq(_)
\* Array.from(imports).sort()                                  (merge.ts:100)
SortedSeq(S) ==
  IF S = {} THEN << >>
  ELSE LET m == CHOOSE x \in S : \A y \in S : LexRank(x) <= LexRank(y)
       IN  <<m>> \o SortedSeq(S \ {m})

RECURSIVE JoinBlank(_)
\* elements.join('\n\n'): one empty line between two elements
JoinBlank(elems) ==
  IF elems = << >> THEN <<EmptyLine>>
  ELSE IF Len(elems) = 1 THEN Head(elems)
       ELSE Head(elems) \o <<EmptyLine>> \o JoinBlank(Tail(elems))

\* finalContent                                               (merge.ts:99-105)
FinalContent(st) ==
  LET imps == SortedSeq(st.imports)
  IN  JoinBlank([i \in 1..Len(imps) |-> <<imps[i]>>]
                \o <<<<EmptyLine>>>>
                \o st.otherClasses
                \o <<<<EmptyLine>>>>
                \o <<st.mainClassContent>>)

\* Faulty variant of MergeFiles: the output is written before the entry point
\* is looked for
MergeWritesBeforeCheck(dir, file, order) ==
  IF ~dir.exists
  THEN [file |-> file, error |-> "Input directory does not exist", st |-> MergeInit({})]
  ELSE IF Len(order) = 0
  THEN [file |-> file, error |-> "No .java files found.", st |-> MergeInit({})]
  ELSE LET st == ExtractAll(MergeInit(CollectDefined(dir, order)), dir, order)
           out == [exists |-> TRUE, lines |-> FinalContent(st)]
       IN  IF IsEmptyString(st.mainClassContent) \/ st.mainClassName = ""
           THEN [file |-> out, error |-> "No class with main method found.", st |-> st]
           ELSE [file |-> out, error |-> "", st |-> st]

\* mergeFiles(inputDir, outputFilePath) with the files enumerated in `order`:
\* the output file it leaves and what it logged.
MergeFiles(dir, file, order) ==
  IF ~dir.exists
  THEN [file |-> file, error |-> "Input directory does not exist", st |-> MergeInit({})]
  ELSE IF Len(order) = 0
  THEN [file |-> file, error |-> "No .java files found.", st |-> MergeInit({})]
  ELSE LET st == ExtractAll(MergeInit(CollectDefined(dir, order)), dir, order)
       IN  IF IsEmptyString(st.mainClassContent) \/ st.mainClassName = ""
           THEN [file |-> file, error |-> "No class with main method found.", st |-> st]
           ELSE [file |-> [exists |-> TRUE, lines |-> FinalContent(st)],
                 error |-> "", st |-> st]

\* ------------------------------------------------ input universe

ImpList == <<"import", "java.util", "List">>
ImpFile == <<"import", "java.io", "File">>
ImpStar == <<"import", "java.util", "*">>
ImpHelper == <<"import", "lib", "Helper">>
ImpMain == <<"import", "lib", "Main">>
PackageLine == <<"package", "lib", ";">>
CommentLine == <<"//", "generated">>
MainSig == <<WS, "public", "static", "void", "main", "(", ")", "{">>
InnerClose == <<WS, "}">>
Close == <<"}">>

\* A type header line: [indentation] [public] [abstract|final] kind name {
Header(ind, pub, mod, kind, name) ==
  (IF ind THEN <<WS>> ELSE << >>) \o (IF pub THEN <<"public">> ELSE << >>)
  \o (IF mod = "" THEN << >> ELSE <<mod>>) \o <<kind, name, "{">>

HeaderShapes == [ind : BOOLEAN, pub : BOOLEAN, mod : Mods \cup {""}, kind : Kinds]

ShapedHeader(sh, name) == Header(sh.ind, sh.pub, sh.mod, sh.kind, name)

\* `public class Main` with a main method
MainBlock == <<Header(FALSE, TRUE, "", "class", "Main"), MainSig, InnerClose, Close>>
\* the same declared final: split.ts accepts the header, merge.ts:59 does not
FinalMainBlock == <<Header(FALSE, TRUE, "final", "class", "Main"), MainSig, InnerClose, Close>>
\* a second class with a main method
AppBlock == <<Header(FALSE, TRUE, "", "class", "App"), MainSig, InnerClose, Close>>
HelperBlock == <<Header(FALSE, FALSE, "", "class", "Helper"), Close>>
NestedHelperBlock == <<Header(TRUE, FALSE, "", "class", "Helper"), InnerClose, EmptyLine>>
UtilBlock == <<Header(FALSE, TRUE, "abstract", "class", "Util"), Close, EmptyLine>>
ExtraBlock == <<Header(FALSE, TRUE, "", "interface", "Extra"), Close>>

\* The blocks merged files are built from
Blocks == {MainBlock, FinalMainBlock, HelperBlock, NestedHelperBlock, UtilBlock}

\* What precedes the first type header of a merged file
Prefixes == {<< >>, <<ImpList, ImpFile>>, <<CommentLine, ImpStar, EmptyLine>>}

RECURSIVE Concat(_)
Concat(seqs) == IF seqs = << >> THEN << >> ELSE Head(seqs) \o Concat(Tail(seqs))

MaxBlocks == 2

BlockSeqs == UNION {[1..n -> Blocks] : n \in 0..MaxBlocks}

\* Merged files: a prefix and up to MaxBlocks blocks, one auxiliary type
\* of every header shape before MainBlock, and a file with an import line
\* between two types.
MergedInputs ==
  {Text(p \o Concat(bs)) : p \in Prefixes, bs \in BlockSeqs}
  \cup {<<ImpList>> \o <<ShapedHeader(sh, "Helper"), Close>> \o MainBlock : sh \in HeaderShapes}
  \cup {<<CommentLine, ImpList>> \o HelperBlock \o <<ImpFile, EmptyLine>> \o MainBlock}

\* Files a split directory can hold, by path
FileVariants(path) ==
  CASE path = <<"Main", "java">> ->
         { <<ImpList, ImpHelper, EmptyLine>> \o MainBlock,
           <<PackageLine, EmptyLine>> \o MainBlock \o ExtraBlock }
    [] path = <<"App", "java">> ->
         { <<ImpFile, ImpList, EmptyLine>> \o AppBlock }
    [] path = <<"Helper", "java">> ->
         { <<ImpMain, ImpStar, EmptyLine,
             Header(FALSE, TRUE, "", "class", "Helper"), Close>>,
           <<ImpFile, EmptyLine,
             Header(FALSE, TRUE, "abstract", "class", "Helper"), Close>> }
    [] path = <<"Util", "java">> ->
         { <<EmptyLine>> \o FinalMainBlock,
           <<ImpHelper, EmptyLine, Header(TRUE, TRUE, "final", "class", "Util"), Close>> }
    [] path = <<"notes", "txt">> ->
         { <<CommentLine>> }

Paths == {<<"Main", "java">>, <<"App", "java">>, <<"Helper", "java">>,
          <<"Util", "java">>, <<"notes", "txt">>}

MaxFiles == 2

\* Directories of up to MaxFiles files
DirInputs ==
  UNION {{f \in [S -> UNION {FileVariants(p) : p \in S}] :
            \A p \in S : f[p] \in FileVariants(p)} :
         S \in {T \in SUBSET Paths : Cardinality(T) <= MaxFiles}}

NoFile == [exists |-> FALSE, lines |-> << >>]
NoDir == [exists |-> FALSE, files |-> NoFiles]
FileOf(lines) == [exists |-> TRUE, lines |-> lines]
DirOf(files) == [exists |-> TRUE, files |-> files]

\* problemSkel: the skeleton createSubmissionFile writes
ProblemSkel == <<ImpList, EmptyLine>> \o MainBlock

\* A directory left by an earlier split of another version of the file
StaleDir == DirOf([p \in {<<"Old", "java">>} |->
                     <<EmptyLine, Header(FALSE, TRUE, "", "class", "Old"), Close>>])

\* ------------------------------------------------ state machine

VARIABLES
  file,     \* the submission file at fileUri: [exists, lines]
  dir,      \* the split directory beside it: [exists, files]
  op,       \* the operation that ran last
  error,    \* what it passed to console.error ("" if nothing)
  shown,    \* the message its caller showed to the user ("" if none)
  order,    \* the order in which the last merge enumerated the .java files
  mst,      \* the variables of the last mergeFiles call at its end
  scan,     \* typeBlocks and importLines of the last split at its end
  prev,     \* file and dir before the last operation
  start,    \* file and dir of the initial state
  nops,     \* operations run so far
  poll,     \* the locals of waitForSubmitionProcessing and its position
  server    \* the judge: the submissions of the problem and the submit request

vars == <<file, dir, op, error, shown, order, mst, scan, prev, start, nops, poll, server>>

\* The variables of the file system and of the last split or merge
fsVars == <<file, dir, op, error, shown, order, mst, scan, prev, start, nops>>

MaxOps == 2
MaxCalls == 3

NoScan == [typeBlocks |-> << >>, importLines |-> << >>]

\* ProblemWebview.apiCooldown and .maxApiConsecutiveRequests
ApiCooldown == 100
MaxApiConsecutiveRequests == 50

\* What resolve(undefined) passes; submissions are numbered from 1
Undefined == 0

\* waitForSubmitionProcessing not called yet
PollIdle ==
  [pc |-> "idle", stopPolling |-> FALSE, submissions |-> << >>,
   currentSubmissions |-> << >>, iterations |-> 0, currentCooldown |-> 0,
   result |-> Undefined, polls |-> 0]

\* The judge holding the submissions 1..n of the problem, no request sent
ServerWith(n) == [list |-> [i \in 1..n |-> i], request |-> "none", new |-> 0]

InitCommon ==
  /\ op = "none" /\ error = "" /\ shown = "" /\ order = << >>
  /\ mst = MergeInit({}) /\ scan = NoScan
  /\ prev = [file |-> file, dir |-> dir]
  /\ start = [file |-> file, dir |-> dir]
  /\ nops = 0
  /\ poll = PollIdle
  /\ server = ServerWith(0)

\* Either a merged file beside no, an empty or a stale split directory, or a
\* directory of source files beside no file or the skeleton.
Init ==
  /\ \/ /\ file \in {FileOf(m) : m \in MergedInputs} \cup {NoFile}
        /\ dir \in {NoDir, DirOf(NoFiles), StaleDir}
     \/ /\ file \in {NoFile, FileOf(ProblemSkel)}
        /\ dir \in {DirOf(f) : f \in DirInputs}
  /\ InitCommon

\* The message of openInEditor's try block: readdirSync throws when the
\* directory does not exist.                            (part_000:173-190)
SplitMessage(r) ==
  IF r.dir.exists THEN "Problem split" ELSE "Split failed"

\* The effect of a call of splitMergedJavaFile(fileUri, splitDir) on f and d
DoSplit(name, f, d) ==
  LET r == SplitMergedJavaFile(f, d)
  IN  /\ file' = f
      /\ dir' = r.dir
      /\ op' = name
      /\ error' = r.error
      /\ shown' = (IF name = "openInEditor" THEN SplitMessage(r) ELSE "")
      /\ scan' = [typeBlocks |-> r.typeBlocks, importLines |-> r.importLines]
      /\ prev' = [file |-> file, dir |-> dir]
      /\ nops' = nops + 1
      /\ UNCHANGED <<order, mst, start, poll, server>>

\* The effect of a call of mergeFiles(splitDir, fileUri)
DoMerge(name, o, msg) ==
  LET r == MergeFiles(dir, file, o)
  IN  /\ file' = r.file
      /\ op' = name
      /\ error' = r.error
      /\ shown' = msg
      /\ order' = o
      /\ mst' = r.st
      /\ prev' = [file |-> file, dir |-> dir]
      /\ nops' = nops + 1
      /\ UNCHANGED <<dir, scan, start, poll, server>>

\* splitMergedJavaFile called on the two paths
Split == nops < MaxOps /\ DoSplit("split", file, dir)

\* mergeFiles called on the two paths
Merge ==
  /\ nops < MaxOps
  /\ \E o \in Orders(JavaFilesOf(dir)) : DoMerge("merge", o, "")

\* createSubmissionFile(override)                      (part_000:143-150)
CreateSubmissionFile(f, override) ==
  IF ~f.exists \/ override THEN FileOf(ProblemSkel) ELSE f

\* fs.rmSync(splitDir) under override                   (part_000:155-164)
RemoveSplitDir(d, override) == IF override /\ d.exists THEN NoDir ELSE d

\* SubmissionFile.openInEditor(override)                (part_000:152-192)
OpenInEditor ==
  /\ nops < MaxCalls
  /\ \E override \in BOOLEAN :
    DoSplit("openInEditor", CreateSubmissionFile(file, override),
            RemoveSplitDir(dir, override))

\* SubmissionFile.prepareSubmission(): mergeFiles returns without throwing,
\* so the try block runs to its end.                    (part_000:64-80)
PrepareSubmission ==
  /\ nops < MaxCalls
  /\ \E o \in Orders(JavaFilesOf(dir)) : DoMerge("prepareSubmission", o, "Merged successfully")

\* The line a user adds to a split file
EditedLine == <<WS, "int", "edited", ";">>

\* The file with EditedLine added after its first type header
Edited(content) ==
  LET k == Min({j \in 1..Len(content) : TypeRegexMatches(content[j])})
  IN  SubSeq(content, 1, k) \o <<EditedLine>> \o SubSeq(content, k + 1, Len(content))

\* The user changes one of the split files opened by openInEditor and saves
\* it.                                                  (part_000:177-185)
UserEdit ==
  /\ nops < MaxCalls
  /\ \E p \in JavaFilesOf(dir) :
       /\ \E j \in 1..Len(dir.files[p]) : TypeRegexMatches(dir.files[p][j])
       /\ EditedLine \notin {dir.files[p][j] : j \in 1..Len(dir.files[p])}
       /\ dir' = [dir EXCEPT !.files = Put(dir.files, p, Edited(dir.files[p]))]
  /\ op' = "userEdit" /\ error' = "" /\ shown' = ""
  /\ prev' = [file |-> file, dir |-> dir]
  /\ nops' = nops + 1
  /\ UNCHANGED <<file, order, mst, scan, start, poll, server>>

Next == Split \/ Merge

Spec == Init /\ [][Next]_vars

\* ------------------------------------------------ the callers

InitCallers ==
  /\ file \in {NoFile, FileOf(ProblemSkel),
               FileOf(<<ImpFile, ImpList>> \o HelperBlock \o MainBlock),
               FileOf(<<ImpList>> \o NestedHelperBlock \o FinalMainBlock)}
  /\ dir \in {NoDir, DirOf(NoFiles), StaleDir}
              \cup {DirOf(f) : f \in {g \in DirInputs : Cardinality(DOMAIN g) = 1}}
  /\ InitCommon

NextCallers == OpenInEditor \/ PrepareSubmission \/ UserEdit

SpecCallers == InitCallers /\ [][NextCallers]_vars

\* ------------------------------------------------ properties

Range(f) == {f[x] : x \in DOMAIN f}

\* The lines of a text that are type headers
HeaderLines(lines) == SelectSeq(lines, TypeRegexMatches)

\* The header carries the `public` modifier
CarriesPublic(line) == StripWS(line) # << >> /\ Head(StripWS(line)) = "public"

\* The names the type headers of the directory's source files define
DefinedTypeNames(d) ==
  UNION {{TypeRegexName(l) : l \in Range(HeaderLines(d.files[p]))} : p \in JavaFilesOf(d)}

\* The import lines of the submission file, in file order
OutImports == SelectSeq(file.lines, IsImportLine)

\* sub occurs in s as a run of consecutive lines
OccursIn(sub, s) ==
  \E k \in 0..(Len(s) - Len(sub)) : SubSeq(s, k + 1, k + Len(sub)) = sub

IsSuffix(sub, s) ==
  Len(sub) <= Len(s) /\ SubSeq(s, Len(s) - Len(sub) + 1, Len(s)) = sub

\* C1: every file a split writes holds a type header, and every type header
\* in it carries `public`, whatever the shape of the header in the input.
C1_SplitFilesArePublic ==
  (op = "split" /\ error = "") =>
    \A i \in 1..Len(scan.typeBlocks) :
      LET hs == HeaderLines(dir.files[JavaPath(scan.typeBlocks[i].name)])
      IN  Len(hs) >= 1 /\ \A k \in 1..Len(hs) : CarriesPublic(hs[k])

\* A split has written the file of a block whose header was indented, not
\* public and abstract.
C1_Witness ==
  /\ op = "split" /\ error = ""
  /\ \E i \in 1..Len(scan.typeBlocks) :
       LET h == scan.typeBlocks[i].content[1]
       IN  /\ Head(h) = WS /\ h[2] = "abstract" /\ h[3] = "interface"
           /\ JavaPath(scan.typeBlocks[i].name) \in DOMAIN dir.files

\* C3: after a successful merge no import line of the output names a type
\* that a header of any enumerated file defines, whatever the order of
\* enumeration.
C3_NoSelfImport ==
  (op = "merge" /\ error = "") =>
    \A k \in 1..Len(OutImports) :
      OutImports[k][Len(OutImports[k])] \notin DefinedTypeNames(dir)

\* A merge succeeded in which a file importing Main was enumerated before
\* the file that defines Main.
C3_Witness ==
  /\ op = "merge" /\ error = "" /\ Len(order) = 2
  /\ ImpMain \in Range(dir.files[order[1]])
  /\ "Main" \in ClassNamesOf(Flat(dir.files[order[2]]))
  /\ "Main" \notin ClassNamesOf(Flat(dir.files[order[1]]))

\* An import line the merge prunes: `import p.N;` with N a defined type
SelfReferential(l, d) == Len(l) = 3 /\ IsWord(l[3]) /\ l[3] \in DefinedTypeNames(d)

\* C4: the import lines of a merged output are strictly ascending (sorted,
\* none twice) and every import line of an input file that is not
\* self-referential is among them.
C4_ImportsSortedUnique ==
  (op = "merge" /\ error = "") =>
    /\ \A i, j \in 1..Len(OutImports) :
         i < j => LexRank(OutImports[i]) < LexRank(OutImports[j])
    /\ \A p \in JavaFilesOf(dir) : \A l \in Range(dir.files[p]) :
         (IsImportLine(l) /\ ~SelfReferential(l, dir)) => l \in Range(OutImports)

\* A merge succeeded over Main.java and App.java, which share an import
\* line, and the order in which the imports were met (List, Helper, File) is
\* not the sorted one.
C4_Witness ==
  /\ op = "merge" /\ error = ""
  /\ order = << <<"Main", "java">>, <<"App", "java">> >>
  /\ ImpList \in Range(dir.files[order[1]]) \cap Range(dir.files[order[2]])
  /\ OutImports = <<ImpFile, ImpList, ImpHelper>>

\* The text holds `public class` and, after it, a public static void main(
HasPublicClassThenMain(content) ==
  LET t == Flat(content)
  IN  \E i, j \in 1..Len(t) :
        /\ i < j /\ t[i] = "public" /\ t[i + 1] = "class"
        /\ MainSignatureAt(Drop(t, j - 1))

\* C5: a merge over a non-empty set of source files none of which holds a
\* public class followed by a main signature logs NoEntryPoint and leaves
\* the output file as it was.
C5_NoEntryPoint ==
  (/\ op = "merge" /\ dir.exists /\ JavaFilesOf(dir) # {}
   /\ \A p \in JavaFilesOf(dir) : ~HasPublicClassThenMain(dir.files[p]))
  => (error = "No class with main method found." /\ file = prev.file)

\* A merge failed with NoEntryPoint over a directory that holds a main
\* method inside a `public final class`, the output file being there.
C5_Witness ==
  /\ op = "merge" /\ error = "No class with main method found."
  /\ prev.file.exists
  /\ \E p \in JavaFilesOf(dir) : MainSig \in Range(dir.files[p])

\* The text of a source file that mergeFiles takes as its body
SourceBody(content) ==
  Text(SelectSeq(content, LAMBDA l : ~IsImportLine(l) /\ ~IsPackageLine(l)))

\* The positions of `order` whose file satisfies the main-signature pattern
MainPositions == {i \in 1..Len(order) : HasPublicClassThenMain(dir.files[order[i]])}

\* C8: when two or more enumerated files satisfy the main-signature pattern
\* the merge succeeds and the entry-point content it writes is the body of
\* the last of them in enumeration order.
C8_LastMainWins ==
  (op = "merge" /\ Cardinality(MainPositions) >= 2) =>
    LET last == CHOOSE i \in MainPositions : \A j \in MainPositions : j <= i
        body == SourceBody(dir.files[order[last]])
    IN  /\ error = ""
        /\ mst.mainClassContent = body
        /\ IsSuffix(body, file.lines)

\* A merge ran over Main.java and App.java, both with a main method, and
\* enumerated App.java first.
C8_Witness ==
  /\ op = "merge" /\ Cardinality(MainPositions) = 2
  /\ order = << <<"App", "java">>, <<"Main", "java">> >>

\* C9: a split of an existing file without a type header logs no error,
\* writes no file and leaves the output directory existing, empty if it
\* did not exist before.
C9_SplitWithoutTypes ==
  (/\ op = "split" /\ prev.file.exists
   /\ \A l \in Range(prev.file.lines) : ~TypeRegexMatches(l))
  => (/\ error = ""
      /\ dir.exists
      /\ dir.files = prev.dir.files
      /\ (~prev.dir.exists => dir.files = NoFiles))

\* A split ran on a file of import and comment lines only, the output
\* directory being absent, and created it.
C9_Witness ==
  /\ op = "split" /\ prev.file.exists /\ ~prev.dir.exists /\ dir.exists
  /\ Len(prev.file.lines) >= 2
  /\ \A l \in Range(prev.file.lines) : ~TypeRegexMatches(l)

\* The header lines of the submission file that carry `public`
PublicHeaders == SelectSeq(HeaderLines(file.lines), CarriesPublic)

\* C2: in the output of a successful merge exactly one type header carries
\* `public`, and it is the header of the entry-point type.
C2_OnePublicType ==
  (op = "merge" /\ error = "") =>
    /\ Len(PublicHeaders) = 1
    /\ TypeRegexName(PublicHeaders[1]) = mst.mainClassName

\* The blocks the boundary scanner finds in a text
BlocksOf(lines) == Scan(lines).typeBlocks

HasMainSignature(content) ==
  \E k \in 1..Len(content) : MainSignatureAt(StripWS(content[k]))

\* A merged file of the round trip: types of distinct names, one of them
\* `public class Main` with the only main method, and no import of a type
\* the file defines.
RoundTripInput(lines) ==
  LET bs == BlocksOf(lines)
  IN  /\ \A i, j \in 1..Len(bs) : i # j => bs[i].name # bs[j].name
      /\ \E i \in 1..Len(bs) :
           /\ SubSeq(bs[i].content[1], 1, 3) = <<"public", "class", "Main">>
           /\ HasMainSignature(bs[i].content)
           /\ \A j \in 1..Len(bs) : HasMainSignature(bs[j].content) => j = i
      /\ \A l \in Range(lines) :
           IsImportLine(l) => l[Len(l)] \notin {bs[i].name : i \in 1..Len(bs)}

\* C6: round trip.  After a split of such a file into an absent directory
\* and a merge of that directory: the directory holds one file per type,
\* each with a public header and all the import lines; the merge succeeded;
\* the output ends with the original Main block, holds every auxiliary
\* block with `public` stripped, and its import lines are the original
\* ones sorted.
C6_RoundTrip ==
  (/\ op = "merge" /\ ~start.dir.exists /\ dir.exists
   /\ start.file.exists /\ prev.file = start.file
   /\ RoundTripInput(start.file.lines))
  => LET bs == BlocksOf(start.file.lines)
         imps == SelectSeq(start.file.lines, IsImportLine)
     IN  /\ JavaFilesOf(dir) = {JavaPath(bs[i].name) : i \in 1..Len(bs)}
         /\ \A p \in JavaFilesOf(dir) :
              /\ SubSeq(dir.files[p], 1, Len(imps)) = imps
              /\ \A h \in Range(HeaderLines(dir.files[p])) : CarriesPublic(h)
         /\ error = ""
         /\ \A i \in 1..Len(bs) :
              IF HasMainSignature(bs[i].content)
              THEN IsSuffix(bs[i].content, file.lines)
              ELSE OccursIn(StripPublic(bs[i].content), file.lines)
         /\ OutImports = SortedSeq(Range(imps))

\* C10: a caller never presents a failed split or merge as a success
C10_FailureReported ==
  (op \in {"prepareSubmission", "openInEditor"} /\ error # "")
  => shown \notin {"Merged successfully", "Problem split"}

\* ------------------------------------------------ split/merge cycles

MaxCycles == 3

\* A merged file with one entry point beside no split directory
InitCycle ==
  /\ file \in {FileOf(m) : m \in {x \in MergedInputs :
        Cardinality({i \in 1..Len(BlocksOf(x)) :
                       HasMainSignature(BlocksOf(x)[i].content)}) = 1}}
  /\ dir = NoDir
  /\ InitCommon

CycleSplit ==
  /\ nops < 2 * MaxCycles /\ nops % 2 = 0
  /\ DoSplit("split", file, dir)

CycleMerge ==
  /\ nops % 2 = 1
  /\ \E o \in Orders(JavaFilesOf(dir)) : DoMerge("merge", o, "")

NextCycle == CycleSplit \/ CycleMerge

SpecCycle == InitCycle /\ [][NextCycle]_vars

\* C7: after MaxCycles split/merge cycles the last cycle reproduced the
\* merged file line for line.
C7_CyclesConverge ==
  (op = "merge" /\ nops = 2 * MaxCycles) => file = prev.file

\* What keeps the cycles from converging: every cycle over a file with an
\* auxiliary type makes the merged file longer.
CycleGrows ==
  (op = "merge" /\ error = "" /\ nops >= 4 /\ Len(mst.otherClasses) >= 1)
  => Len(file.lines) > Len(prev.file.lines)

\* ------------------------------------------------ properties (continued)

\* The paths of the files one per detected type would make
TypePaths == {JavaPath(scan.typeBlocks[i].name) : i \in 1..Len(scan.typeBlocks)}

\* C11: after a successful split the source files of the output directory
\* are exactly one file <TypeName>.java per detected type and nothing else.
C11_OneFilePerType ==
  (op = "split" /\ error = "") =>
    /\ JavaFilesOf(dir) = TypePaths
    /\ Cardinality(JavaFilesOf(dir)) = Len(scan.typeBlocks)

\* The text holds a public type header, with or without abstract/final,
\* and a main signature after it.
HasPublicTypeThenMain(content) ==
  \E k \in 1..Len(content) :
    /\ TypeRegexMatches(content[k]) /\ CarriesPublic(content[k])
    /\ \E m \in (k + 1)..Len(content) : MainSignatureAt(StripWS(content[m]))

\* C12: a merge over a directory in which a file holds a public type
\* declaration, with or without abstract/final, whose body holds a main
\* signature records an entry point and succeeds.
C12_ModifiedMainIsEntryPoint ==
  (/\ op = "merge" /\ dir.exists
   /\ \E p \in JavaFilesOf(dir) : HasPublicTypeThenMain(dir.files[p]))
  => (error = "" /\ mst.mainClassName # "")

\* The lines of the split's input that are not import lines
NonImportLines == SelectSeq(prev.file.lines, LAMBDA l : ~IsImportLine(l))

\* The contents of the recorded blocks, one after the other
BlockLines == Concat([i \in 1..Len(scan.typeBlocks) |-> scan.typeBlocks[i].content])

\* The positions of NonImportLines that are type headers
HeaderPositions == {k \in 1..Len(NonImportLines) : TypeRegexMatches(NonImportLines[k])}

\* C13: at the end of the scan every block starts with a header line and
\* holds no other header and no import line, and the blocks one after the
\* other are the input's non-import lines from the first header to the end
\* (no block when there is no header).
C13_ScannerPartition ==
  (op = "split" /\ error = "") =>
    /\ \A i \in 1..Len(scan.typeBlocks) :
         LET c == scan.typeBlocks[i].content
         IN  /\ c # << >> /\ TypeRegexMatches(c[1])
             /\ scan.typeBlocks[i].name = TypeRegexName(c[1])
             /\ \A j \in 2..Len(c) : ~TypeRegexMatches(c[j]) /\ ~IsImportLine(c[j])
    /\ BlockLines = (IF HeaderPositions = {} THEN << >>
                     ELSE SubSeq(NonImportLines, Min(HeaderPositions), Len(NonImportLines)))
    /\ scan.importLines = SelectSeq(prev.file.lines, IsImportLine)

\* A split scanned a file with a line before the first header, an import
\* line between two types and two blocks.
C13_Witness ==
  /\ op = "split" /\ error = "" /\ Len(scan.typeBlocks) = 2
  /\ prev.file.lines[1] = CommentLine
  /\ \E k \in 1..Len(prev.file.lines) :
       /\ IsImportLine(prev.file.lines[k])
       /\ \E j \in 1..(k - 1) : TypeRegexMatches(prev.file.lines[j])

\* The block is the last recorded one of its name, the one whose file stays
LastOfName(i) ==
  \A j \in (i + 1)..Len(scan.typeBlocks) : scan.typeBlocks[j].name # scan.typeBlocks[i].name

\* The type content of the file written for block i: what follows the
\* import lines and the blank line
WrittenContent(i) ==
  Drop(dir.files[JavaPath(scan.typeBlocks[i].name)], Len(scan.importLines) + 1)

\* C14: in every file a split wrote, each line of the block other than its
\* header is the input line, the header keeps its abstract/final modifier,
\* its kind, its name and what follows them, and a block whose header is
\* already public is written with no line changed.
C14_OnlyVisibilityAltered ==
  (op = "split" /\ error = "") =>
    \A i \in 1..Len(scan.typeBlocks) :
      LastOfName(i) =>
        LET c == scan.typeBlocks[i].content
            w == WrittenContent(i)
        IN  /\ Len(w) = Len(c)
            /\ \A j \in 2..Len(c) : w[j] = c[j]
            /\ SkipPublic(StripWS(w[1])) = SkipPublic(StripWS(c[1]))
            /\ CarriesPublic(c[1]) => w = c

\* A split wrote a block whose header was non-public with a modifier and a
\* block whose header was already public.
C14_Witness ==
  /\ op = "split" /\ error = ""
  /\ \E i \in 1..Len(scan.typeBlocks) :
       LET h == scan.typeBlocks[i].content[1]
       IN  ~CarriesPublic(h) /\ SkipMod(StripWS(h)) # StripWS(h)
           /\ Len(scan.typeBlocks[i].content) >= 2
  /\ \E i \in 1..Len(scan.typeBlocks) : CarriesPublic(scan.typeBlocks[i].content[1])

\* C15: a split or a merge that ends in InputNotFound, NoSourceFiles or
\* NoEntryPoint leaves the merged file and the split directory as they were.
C15_FailureChangesNothing ==
  (op \in {"split", "merge"} /\ error # "") => (file = prev.file /\ dir = prev.dir)

\* A merge over a directory without .java files ended in NoSourceFiles
\* while a merged file existed.
C15_Witness ==
  /\ op = "merge" /\ error = "No .java files found."
  /\ prev.file.exists /\ prev.dir.exists

\* A merge found no entry point while a merged file existed.
C15_WitnessNoEntryPoint ==
  /\ op = "merge" /\ error = "No class with main method found." /\ prev.file.exists

\* A split of a missing merged file with no output directory
C15_WitnessSplit ==
  op = "split" /\ error = "File not found" /\ ~prev.dir.exists

\* The places of `s` at which `sub` starts
Occurrences(sub, s) ==
  {k \in 0..(Len(s) - Len(sub)) : SubSeq(s, k + 1, k + Len(sub)) = sub}

\* The places of the merged output that hold the body of the i-th
\* enumerated file, as it is or with its public keywords stripped
BodyPlaces(i) ==
  LET body == SourceBody(dir.files[order[i]])
  IN  Occurrences(body, file.lines) \cup Occurrences(StripPublic(body), file.lines)

\* C16 as stated: after a successful merge the body of every enumerated file
\* is in the output exactly once, however many files satisfy the
\* main-signature pattern.
C16_NoBodyLost ==
  (op = "merge" /\ error = "") =>
    \A i \in 1..Len(order) : Cardinality(BodyPlaces(i)) = 1

\* With one enumerated file satisfying the main-signature pattern a
\* successful merge keeps the body of every enumerated file, once.
C16_NoBodyLostWithOneMain ==
  (op = "merge" /\ error = "" /\ Cardinality(MainPositions) = 1) =>
    \A i \in 1..Len(order) : Cardinality(BodyPlaces(i)) = 1

\* openInEditor() as the 'code' message calls it: without override
OpenWithoutOverride ==
  DoSplit("openInEditor", CreateSubmissionFile(file, FALSE), dir)

\* C17: no openInEditor without override and no prepareSubmission takes the
\* user's edit out of a split file: a split file that holds the edited line
\* before the call holds it after the call.
C17_EditsSurvive ==
  [][(OpenWithoutOverride \/ PrepareSubmission) =>
       \A p \in JavaFilesOf(dir) :
         EditedLine \in Range(dir.files[p]) =>
           /\ dir'.exists /\ p \in DOMAIN dir'.files
           /\ EditedLine \in Range(dir'.files[p])]_vars

\* ------------------------------------------------ the submission poller
\* waitForSubmitionProcessing (problemWebview.ts:399-495). The judge holds
\* the list of the problem's submissions; a getSubmissions call returns the
\* list as it is when the call is served, or fails, and getSubmissionsSafe
\* then returns the empty list. The judge adds the new submission at any
\* time after the submit request was sent, unless the request fails.

MaxOld == 1

InitPoll ==
  /\ file \in {NoFile, FileOf(ProblemSkel)}
  /\ dir = DirOf(JavaPath("Main") :> (<<ImpList, EmptyLine>> \o MainBlock))
  /\ op = "none" /\ error = "" /\ shown = "" /\ order = << >>
  /\ mst = MergeInit({}) /\ scan = NoScan
  /\ prev = [file |-> file, dir |-> dir]
  /\ start = [file |-> file, dir |-> dir]
  /\ nops = 0
  /\ poll = PollIdle
  /\ server \in {ServerWith(n) : n \in 0..MaxOld}

\* readSubmissionFile(): prepareSubmission, createSubmissionFile() and the
\* read of the file; runWithValgrind returns at once for a .java file.
\*                                                      (part_000:194-202)
ReadSubmissionFile(o) ==
  LET r == MergeFiles(dir, file, o)
  IN  /\ file' = CreateSubmissionFile(r.file, FALSE)
      /\ op' = "readSubmissionFile"
      /\ error' = r.error
      /\ shown' = "Merged successfully"
      /\ order' = o
      /\ mst' = r.st
      /\ prev' = [file |-> file, dir |-> dir]
      /\ nops' = nops + 1
      /\ UNCHANGED <<dir, scan, start>>

\* The call up to its first await on the network: the file is read and the
\* submit request is sent, without waiting for it. (problemWebview.ts:399-417)
SendSubmit ==
  /\ poll.pc = "idle"
  /\ \E o \in Orders(JavaFilesOf(dir)) : ReadSubmissionFile(o)
  /\ poll' = [poll EXCEPT !.pc = "baseline"]
  /\ server' = [server EXCEPT !.request = "sent"]

\* What a getSubmissionsSafe() call returns    (problemWebview.ts:419-434)
GetSubmissionsSafe(ok) == IF ok THEN server.list ELSE << >>

\* const submissions = await getSubmissionsSafe(), then the first timer is
\* set with delay 0.                          (problemWebview.ts:435-449)
Baseline ==
  /\ poll.pc = "baseline"
  /\ \E ok \in BOOLEAN :
       poll' = [poll EXCEPT !.pc = "timer", !.submissions = GetSubmissionsSafe(ok)]
  /\ UNCHANGED <<fsVars, server>>

\* The timer fires and loop() awaits getSubmissionsSafe()
\*                                            (problemWebview.ts:449-450)
PollFetch ==
  /\ poll.pc = "timer"
  /\ \E ok \in BOOLEAN :
       poll' = [poll EXCEPT !.pc = "fetched",
                            !.currentSubmissions = GetSubmissionsSafe(ok),
                            !.polls = @ + 1]
  /\ UNCHANGED <<fsVars, server>>

\* Faulty variant of Decide: the limit is looked for one iteration late
DecideLateLimit(p) ==
  IF Len(p.currentSubmissions) > Len(p.submissions)
  THEN [p EXCEPT !.pc = "resolved",
                 !.result = p.currentSubmissions[Len(p.currentSubmissions)]]
  ELSE IF p.stopPolling
  THEN [p EXCEPT !.pc = "resolved", !.result = Undefined]
  ELSE IF p.iterations = MaxApiConsecutiveRequests + 1
  THEN [p EXCEPT !.pc = "resolved", !.result = Undefined]
  ELSE [p EXCEPT !.pc = "timer",
                 !.iterations = @ + 1,
                 !.currentCooldown = @ + ApiCooldown]

\* The rest of loop() after its await        (problemWebview.ts:452-484)
Decide(p) ==
  IF Len(p.currentSubmissions) > Len(p.submissions)
  THEN [p EXCEPT !.pc = "resolved",
                 !.result = p.currentSubmissions[Len(p.currentSubmissions)]]
  ELSE IF p.stopPolling
  THEN [p EXCEPT !.pc = "resolved", !.result = Undefined]
  ELSE IF p.iterations = MaxApiConsecutiveRequests
  THEN [p EXCEPT !.pc = "resolved", !.result = Undefined]
  ELSE [p EXCEPT !.pc = "timer",
                 !.iterations = @ + 1,
                 !.currentCooldown = @ + ApiCooldown]

PollDecide ==
  /\ poll.pc = "fetched"
  /\ poll' = Decide(poll)
  /\ UNCHANGED <<fsVars, server>>

\* The submit request fails and its catch handler runs
\*                                            (problemWebview.ts:409-417)
SubmitFails ==
  /\ server.request = "sent"
  /\ server' = [server EXCEPT !.request = "failed"]
  /\ poll' = [poll EXCEPT !.stopPolling = TRUE]
  /\ UNCHANGED fsVars

\* The judge takes the submission and adds it to the list
JudgeAdds ==
  /\ server.request = "sent"
  /\ server' = [server EXCEPT !.request = "judged",
                              !.list = Append(@, Len(@) + 1),
                              !.new = Len(server.list) + 1]
  /\ UNCHANGED <<fsVars, poll>>

NextPoll == SendSubmit \/ Baseline \/ PollFetch \/ PollDecide \/ SubmitFails \/ JudgeAdds

SpecPoll == InitPoll /\ [][NextPoll]_vars

\* The event loop runs every continuation and timer that is due, and each
\* getSubmissions call returns; the judge and the submit request are under
\* no such obligation.
SpecPollFair ==
  /\ SpecPoll
  /\ WF_vars(SendSubmit) /\ WF_vars(Baseline)
  /\ WF_vars(PollFetch) /\ WF_vars(PollDecide)

\* C18: when the submit request did not fail, the poller never resolves with
\* an older submission, and once the list a poll got holds the new
\* submission it resolves with the new submission, never with undefined.
C18_ResolvesWithNewSubmission ==
  (poll.pc = "resolved" /\ server.request # "failed") =>
    /\ poll.result # Undefined => poll.result = server.new
    /\ (server.new # 0 /\ server.new \in Range(poll.currentSubmissions))
         => poll.result = server.new

\* What C19 says of every state: at most maxApiConsecutiveRequests + 1 polls
\* were made, and a resolved poller holds the last submission of the list it
\* got if that list was longer than the baseline, and undefined otherwise,
\* which happens only after the submit request failed or at the limit.
C19_BoundedAndResolved ==
  /\ poll.polls <= MaxApiConsecutiveRequests + 1
  /\ poll.pc = "resolved" =>
       IF Len(poll.currentSubmissions) > Len(poll.submissions)
       THEN poll.result = poll.currentSubmissions[Len(poll.currentSubmissions)]
       ELSE /\ poll.result = Undefined
            /\ poll.stopPolling \/ poll.iterations = MaxApiConsecutiveRequests

\* C19: the poller is resolved in the end, after at most
\* maxApiConsecutiveRequests + 1 polls, with a result if a longer list was
\* seen and with undefined if the submit request failed or the limit was
\* reached, and once resolved it makes no further poll.
C19_PollerTerminates ==
  /\ []C19_BoundedAndResolved
  /\ [][poll.pc = "resolved" => (poll'.pc = "resolved" /\ poll'.polls = poll.polls
                                  /\ poll'.result = poll.result)]_vars
  /\ <>(poll.pc = "resolved")

\* The poller resolved with undefined at the limit, after 51 polls, the
\* submit request not having failed.
C19_Witness ==
  /\ poll.pc = "resolved" /\ poll.result = Undefined
  /\ poll.polls = MaxApiConsecutiveRequests + 1
  /\ ~poll.stopPolling
====
